---- MODULE Spec2Model ----
(***************************************************************************)
(* LightTheGains (src/light_the_gains.py): a polling loop that fetches     *)
(* quotes for a portfolio, derives per-row and aggregate metrics and sets  *)
(* a smart bulb's colour from the overall one-day change.                  *)
(*                                                                         *)
(* Units.  Money (prices, invested, values) is in whole currency units, so *)
(* the rounding to two places of DataFrame.round(2) is the identity on it. *)
(* Per-row percentages, which the code rounds to two places, are integers  *)
(* in hundredths of a percent (0.30 % is 30).  The overall one-day change  *)
(* is a quotient the code never rounds: it is kept as a pair <<num, den>>  *)
(* in hundredths of a percent, <<0, 0>> being the float NaN that 0.0 / 0.0 *)
(* yields on numpy floats.  Arithmetic is exact where the code's is        *)
(* binary floating point.                                                  *)
(*                                                                         *)
(* Optional values.  Python's None is the empty tuple, a present value x   *)
(* is the 1-tuple <<x>>.                                                   *)
(***************************************************************************)
EXTENDS Integers, Sequences, FiniteSets, TLC

VARIABLES
    pc,          \* control location of main / of the function under study
    portfolio,   \* df_port: the holdings loaded once at startup
    idx,         \* position of fetch_live_prices' for loop in the symbol list
    prices,      \* fetch_live_prices' prices dict
    returns,     \* fetch_live_prices' returns dict
    fetchLog,    \* the calls of fetch_yfinance_price made in this cycle, in order
    df,          \* df_result: the enriched rows compute_portfolio returns
    summary,     \* what print_summary computed in this cycle
    bulb,        \* the device: power and colour
    cmds,        \* bulb commands issued in this cycle, in order
    log,         \* warnings printed in this cycle
    intrAt,      \* the step a KeyboardInterrupt arrived in, "none" before
    exc,         \* the exception that left main uncaught, "none" otherwise
    quoteIn,     \* what the price source answers to one fetch_yfinance_price call
    quoteOut     \* what that call computed

vars == <<pc, portfolio, idx, prices, returns, fetchLog, df, summary, bulb,
          cmds, log, intrAt, exc, quoteIn, quoteOut>>

-----------------------------------------------------------------------------
(* Bounds of the model *)

MaxRows == 2
MaxQty == 1
MaxHist == 2

(* Program constants, in hundredths of a percent *)

GainThreshold == 30
LossThreshold == -30

-----------------------------------------------------------------------------
(* Optional values and Python truthiness *)

None == <<>>
Some(x) == <<x>>
Val(o) == o[1]

\* bool(x) for an Optional[float]: None and 0 are falsy
Truthy(o) == o # None /\ Val(o) # 0

\* round(x, 2) of the quotient n / d (d > 0), in hundredths when n is scaled by
\* 10000; ties go to the even neighbour
RoundDiv(n, d) ==
    LET q == n \div d
        r == n - q * d
    IN  IF 2 * r < d THEN q
        ELSE IF 2 * r > d THEN q + 1
        ELSE IF q % 2 = 0 THEN q ELSE q + 1

-----------------------------------------------------------------------------
(* Floats that may be NaN: <<num, den>> with den >= 0, <<0, 0>> is NaN *)

NaN == <<0, 0>>
IsNaN(f) == f[2] = 0
FloatGT(f, k) == ~IsNaN(f) /\ f[1] > k * f[2]
FloatLT(f, k) == ~IsNaN(f) /\ f[1] < k * f[2]
FloatDiv(n, d) == IF d = 0 THEN (IF n = 0 THEN NaN ELSE <<(IF n > 0 THEN 1 ELSE -1), 0>>)
                  ELSE IF d < 0 THEN <<-n, -d>> ELSE <<n, d>>

-----------------------------------------------------------------------------
(* normalize_symbol.  A string is a sequence of one-character strings. *)

Suffix == <<".", "N", "S">>
Whitespace == {" "}

Upper(c) == CASE c = "a" -> "A" [] c = "b" -> "B" [] OTHER -> c

RECURSIVE LStrip(_)
LStrip(s) == IF s # <<>> /\ Head(s) \in Whitespace THEN LStrip(Tail(s)) ELSE s

RECURSIVE RStrip(_)
RStrip(s) == IF s # <<>> /\ s[Len(s)] \in Whitespace
             THEN RStrip(SubSeq(s, 1, Len(s) - 1)) ELSE s

Strip(s) == RStrip(LStrip(s))

EndsWith(s, t) == Len(s) >= Len(t) /\ SubSeq(s, Len(s) - Len(t) + 1, Len(s)) = t

RECURSIVE ReplaceAmp(_)
ReplaceAmp(s) == IF s = <<>> THEN <<>>
                 ELSE IF Head(s) = "&" THEN <<"%", "2", "6">> \o ReplaceAmp(Tail(s))
                 ELSE <<Head(s)>> \o ReplaceAmp(Tail(s))

AUTO_APPEND_NS == TRUE

normalize_symbol(symbol) ==
    LET s == [k \in 1..Len(Strip(symbol)) |-> Upper(Strip(symbol)[k])]
        t == IF AUTO_APPEND_NS /\ ~EndsWith(s, Suffix) THEN s \o Suffix ELSE s
    IN  ReplaceAmp(t)

-----------------------------------------------------------------------------
(* fetch_yfinance_price *)

Prices == {0, 1000, 1010}
OptPrices == {None} \cup {Some(p) : p \in Prices}

RECURSIVE SeqsUpTo(_, _)
SeqsUpTo(S, n) == IF n = 0 THEN {<<>>}
                  ELSE LET shorter == SeqsUpTo(S, n - 1)
                       IN  shorter \cup {Append(s, x) : s \in {t \in shorter : Len(t) = n - 1}, x \in S}

\* What the price source answers to one call: the fast quote's two fields, the
\* daily closes of the 2-day history, the detailed quote's previousClose, and the
\* request that raises, if one does.
QuoteInputs ==
    [last : OptPrices, prev : OptPrices, hist : SeqsUpTo(Prices, MaxHist),
     infoPrev : OptPrices, raises : {"none", "fast_info", "history", "info"}]

\* line 105: the condition of the history fallback
HistoryFallbackRuns(last_price, prev_close) ==
    ~Truthy(prev_close) \/ ~Truthy(last_price) \/ prev_close = Some(0)

\* lines 106-111: last_price and prev_close after the history fallback
AfterHistory(last_price, prev_close, hist) ==
    IF Len(hist) >= 2
    THEN [last |-> Some(hist[Len(hist)]), prev |-> Some(hist[Len(hist) - 1])]
    ELSE IF Len(hist) = 1
    THEN [last |-> Some(hist[1]), prev |-> prev_close]
    ELSE [last |-> last_price, prev |-> prev_close]

\* line 113: the condition of the detailed-quote fallback
InfoFallbackRuns(prev_close) == ~Truthy(prev_close) \/ prev_close = Some(0)

\* lines 116-119: the unrounded one-day return as the pair <<numerator, denominator>>
\* of the percentage in hundredths, None when either price is falsy
OneDayReturn(last_price, prev_close) ==
    IF Truthy(last_price) /\ Truthy(prev_close)
    THEN Some(<<(Val(last_price) - Val(prev_close)) * 10000, Val(prev_close)>>)
    ELSE None

\* line 122
ReturnedPrice(last_price) == IF Truthy(last_price) THEN last_price ELSE None

\* line 123: a return of exactly zero is falsy
ReturnedReturn(one_day_return) ==
    IF one_day_return # None /\ Val(one_day_return)[1] # 0
    THEN Some(RoundDiv(Val(one_day_return)[1], Val(one_day_return)[2]))
    ELSE None

fetch_yfinance_price(in) ==
    LET ranHist == HistoryFallbackRuns(in.last, in.prev)
        h       == IF ranHist THEN AfterHistory(in.last, in.prev, in.hist)
                   ELSE [last |-> in.last, prev |-> in.prev]
        ranInfo == InfoFallbackRuns(h.prev)
        prev2   == IF ranInfo THEN in.infoPrev ELSE h.prev
        raised  == \/ in.raises = "fast_info"
                   \/ in.raises = "history" /\ ranHist
                   \/ in.raises = "info" /\ ranInfo
    IN  IF raised
        THEN [failed |-> TRUE, ranHist |-> ranHist, ranInfo |-> ranInfo,
              last |-> None, prev |-> None, histPrev |-> None,
              price |-> None, ret |-> None]
        ELSE [failed |-> FALSE, ranHist |-> ranHist, ranInfo |-> ranInfo,
              last |-> h.last, prev |-> prev2, histPrev |-> h.prev,
              price |-> ReturnedPrice(h.last),
              ret |-> ReturnedReturn(OneDayReturn(h.last, prev2))]

NoQuoteIn == [last |-> None, prev |-> None, hist |-> <<>>, infoPrev |-> None,
              raises |-> "none"]
NoQuoteOut == [failed |-> FALSE, ranHist |-> FALSE, ranInfo |-> FALSE,
               last |-> None, prev |-> None, histPrev |-> None,
               price |-> None, ret |-> None]

\* The distinct (failed, price, return) answers a call can give
QuoteOutcomes ==
    {[failed |-> fetch_yfinance_price(in).failed,
      price |-> fetch_yfinance_price(in).price,
      ret |-> fetch_yfinance_price(in).ret] : in \in QuoteInputs}

-----------------------------------------------------------------------------
(* The portfolio file: rows of symbol, qty and buy_price.  A symbol is a JSON  *)
(* value: a string, or a value of another type (a number, null).  qty and      *)
(* buy_price are numeric here, so pd.to_numeric(...).fillna(0) leaves them.    *)

Str(chars) == [isStr |-> TRUE, chars |-> chars]
NonString == [isStr |-> FALSE, chars |-> <<>>]

RawSymbols == {Str(<<" ", "a">>), Str(<<"b", "&", ".", "N", "S">>), NonString}
BuyPrices == {1000}

Holdings == [symbol : RawSymbols, qty : 0..MaxQty, buy_price : BuyPrices]

RECURSIVE SeqsOfLen(_, _)
SeqsOfLen(S, n) == IF n = 0 THEN {<<>>}
                   ELSE {Append(s, x) : s \in SeqsOfLen(S, n - 1), x \in S}

\* load_portfolio accepts any table with the three columns; an empty list has none
Portfolios == UNION {SeqsOfLen(Holdings, n) : n \in 1..MaxRows}

-----------------------------------------------------------------------------
(* compute_portfolio *)

\* line 144: str.strip exists on strings only
NormalizeRaises(rows) == \E k \in 1..Len(rows) : ~rows[k].symbol.isStr

\* lines 144, 147: df["symbol_norm"].tolist(), one entry per row
SymbolList(rows) == [k \in 1..Len(rows) |-> normalize_symbol(rows[k].symbol.chars)]

EmptyMap == [s \in {} |-> None]

\* lines 136-137: dict[sym] = value
MapPut(m, k, v) == [s \in DOMAIN m \cup {k} |-> IF s = k THEN v ELSE m[s]]

\* lines 149-160, one row
EnrichRow(h, sym, price_map, ret_map) ==
    LET current_price == price_map[sym]
        invested      == h.qty * h.buy_price
        current_value == IF current_price = None THEN None
                         ELSE Some(h.qty * Val(current_price))
        profit_loss   == IF current_value = None THEN None
                         ELSE Some(Val(current_value) - invested)
        return_pct    == IF invested # 0 /\ profit_loss # None
                         THEN Some(RoundDiv(Val(profit_loss) * 10000, invested))
                         ELSE None
    IN  [symbol |-> h.symbol, symbol_norm |-> sym, qty |-> h.qty,
         buy_price |-> h.buy_price, current_price |-> current_price,
         one_day_return_pct |-> ret_map[sym], invested |-> invested,
         current_value |-> current_value, profit_loss |-> profit_loss,
         return_pct |-> return_pct]

\* lines 149-162
EnrichAll(rows, price_map, ret_map) ==
    [k \in 1..Len(rows) |-> EnrichRow(rows[k], SymbolList(rows)[k], price_map, ret_map)]

-----------------------------------------------------------------------------
(* print_summary *)

RECURSIVE SumSeq(_)
SumSeq(s) == IF s = <<>> THEN 0 ELSE Head(s) + SumSeq(Tail(s))

\* Series.sum() skips absent values
SumPresent(s) == SumSeq([k \in 1..Len(s) |-> IF s[k] = None THEN 0 ELSE Val(s[k])])

Column(rows, f) == [k \in 1..Len(rows) |-> rows[k][f]]

\* line 173
TotalInvested(rows) == SumSeq(Column(rows, "invested"))

\* line 174
TotalCurrent(rows) == SumPresent(Column(rows, "current_value"))

\* line 175
TotalPnl(rows) == TotalCurrent(rows) - TotalInvested(rows)

\* line 178: dropna(subset=["1d_return_pct", "current_value"])
Valid1d(rows) == SelectSeq(rows, LAMBDA r : r.one_day_return_pct # None /\ r.current_value # None)

\* lines 179-183
Overall1dChange(rows) ==
    LET valid_1d == Valid1d(rows)
    IN  IF valid_1d # <<>>
        THEN Some(FloatDiv(
                 SumSeq([k \in 1..Len(valid_1d) |->
                            Val(valid_1d[k].one_day_return_pct) * Val(valid_1d[k].current_value)]),
                 SumSeq([k \in 1..Len(valid_1d) |-> Val(valid_1d[k].current_value)])))
        ELSE None

\* lines 196-205: "{row['current_price']:>10.2f}".  Series.map leaves a column whose
\* every value is None as objects, and None has no float format; a column with one
\* number is a float column whose absent entries are NaN, which formats.
TablePrintRaises(rows) == \A k \in 1..Len(rows) : rows[k].current_price = None

NoSummary == [total_invested |-> 0, total_current |-> 0, total_pnl |-> 0,
              overall |-> None]

print_summary(rows) ==
    [total_invested |-> TotalInvested(rows), total_current |-> TotalCurrent(rows),
     total_pnl |-> TotalPnl(rows), overall |-> Overall1dChange(rows)]

-----------------------------------------------------------------------------
(* set_bulb_color *)

\* lines 54-62 with both comparisons inclusive
ColourCommandInclusive(change_pct) ==
    IF ~FloatLT(change_pct, GainThreshold) /\ ~IsNaN(change_pct) THEN "set_green"
    ELSE IF ~FloatGT(change_pct, LossThreshold) /\ ~IsNaN(change_pct) THEN "set_red"
    ELSE "set_white"

\* lines 54-62: the colour command chosen for a change that is not None
ColourCommand(change_pct) ==
    IF FloatGT(change_pct, GainThreshold) THEN "set_green"
    ELSE IF FloatLT(change_pct, LossThreshold) THEN "set_red"
    ELSE "set_white"

ColourOf(cmd) == CASE cmd = "set_green" -> "green"
                   [] cmd = "set_red" -> "red"
                   [] cmd = "set_white" -> "white"

\* The device before any command of this program
BulbStart == [on |-> FALSE, colour |-> "unset"]

-----------------------------------------------------------------------------
(* Exceptions *)

\* lines 63, 126 as a bare "except:", which catches every exception
BareExceptCatches(e) == TRUE

\* lines 63, 126: "except Exception" catches what derives from Exception;
\* KeyboardInterrupt derives from BaseException
ExceptExceptionCatches(e) == e # "KeyboardInterrupt"

\* line 226
MainCatches(e) == e = "KeyboardInterrupt"

-----------------------------------------------------------------------------
(* main: the polling loop.  Control locations:                                 *)
(*   "clear"       top of the loop body: clear_console (line 220)              *)
(*   "normalize"   compute_portfolio up to the symbol list (lines 143-146)     *)
(*   "fetch"       fetch_live_prices' loop (lines 134-137)                     *)
(*   "enrich"      the rest of compute_portfolio (lines 149-162)               *)
(*   "summary"     print_summary (line 222)                                    *)
(*   "bulb"        set_bulb_color (line 223)                                   *)
(*   "sleep"       time.sleep (line 225)                                       *)
(*   "interrupted" main's except KeyboardInterrupt clause (lines 226-228)      *)
(*   "exited"      main returned                                               *)
(*   "crashed"     an exception left main uncaught                             *)

LoopSteps == {"clear", "normalize", "fetch", "enrich", "summary", "bulb", "sleep"}

\* The steps a KeyboardInterrupt can be raised in.  clear_console is os.system,
\* and the C library's system() ignores SIGINT in the caller until the command
\* has ended: Ctrl+C during it raises nothing in this process.
InterruptibleSteps == LoopSteps \ {"clear"}

Init ==
    /\ pc = "clear"
    /\ portfolio \in Portfolios
    /\ idx = 1
    /\ prices = EmptyMap
    /\ returns = EmptyMap
    /\ fetchLog = <<>>
    /\ df = <<>>
    /\ summary = NoSummary
    /\ bulb = BulbStart
    /\ cmds = <<>>
    /\ log = {}
    /\ intrAt = "none"
    /\ exc = "none"
    /\ quoteIn = NoQuoteIn
    /\ quoteOut = NoQuoteOut

\* An exception raised at a step of the loop outside the two inner try blocks:
\* main's handler takes KeyboardInterrupt, anything else leaves main.
RaiseInLoop(e) ==
    IF MainCatches(e)
    THEN pc' = "interrupted" /\ exc' = exc
    ELSE pc' = "crashed" /\ exc' = e

\* line 220
ClearConsole ==
    /\ pc = "clear"
    /\ pc' = "normalize"
    /\ UNCHANGED <<portfolio, idx, prices, returns, fetchLog, df, summary, bulb,
                   cmds, log, intrAt, exc, quoteIn, quoteOut>>

\* lines 143-146: a new cycle starts from the holding list alone
StartCycle ==
    /\ pc = "normalize"
    /\ idx' = 1
    /\ prices' = EmptyMap
    /\ returns' = EmptyMap
    /\ fetchLog' = <<>>
    /\ df' = <<>>
    /\ summary' = NoSummary
    /\ cmds' = <<>>
    /\ log' = {}
    /\ IF NormalizeRaises(portfolio)
       THEN RaiseInLoop("AttributeError")
       ELSE pc' = "fetch" /\ exc' = exc
    /\ UNCHANGED <<portfolio, bulb, intrAt, quoteIn, quoteOut>>

\* lines 135-137 where a failed fetch ends fetch_live_prices' loop
StoreQuoteStopOnFailure(o) ==
    LET sym == SymbolList(portfolio)[idx]
    IN  /\ prices' = MapPut(prices, sym, o.price)
        /\ returns' = MapPut(returns, sym, o.ret)
        /\ fetchLog' = Append(fetchLog, [sym |-> sym, failed |-> o.failed,
                                         price |-> o.price, ret |-> o.ret])
        /\ log' = IF o.failed THEN log \cup {"fetch_failed"} ELSE log
        /\ idx' = idx + 1
        /\ pc' = IF idx = Len(portfolio) \/ o.failed THEN "enrich" ELSE "fetch"

\* lines 135-137 with the outcome o of fetch_yfinance_price(sym)
StoreQuote(o) ==
    LET sym == SymbolList(portfolio)[idx]
    IN  /\ prices' = MapPut(prices, sym, o.price)
        /\ returns' = MapPut(returns, sym, o.ret)
        /\ fetchLog' = Append(fetchLog, [sym |-> sym, failed |-> o.failed,
                                         price |-> o.price, ret |-> o.ret])
        /\ log' = IF o.failed THEN log \cup {"fetch_failed"} ELSE log
        /\ idx' = idx + 1
        /\ pc' = IF idx = Len(portfolio) THEN "enrich" ELSE "fetch"

\* lines 134-137: one iteration of fetch_live_prices' loop
FetchOne ==
    /\ pc = "fetch"
    /\ \E o \in QuoteOutcomes : StoreQuote(o)
    /\ UNCHANGED <<portfolio, df, summary, bulb, cmds, intrAt, exc, quoteIn, quoteOut>>

\* lines 149-162
Enrich ==
    /\ pc = "enrich"
    /\ df' = EnrichAll(portfolio, prices, returns)
    /\ pc' = "summary"
    /\ UNCHANGED <<portfolio, idx, prices, returns, fetchLog, summary, bulb, cmds,
                   log, intrAt, exc, quoteIn, quoteOut>>

\* lines 171-207: the summary block is computed and printed before the table
PrintSummary ==
    /\ pc = "summary"
    /\ summary' = print_summary(df)
    /\ IF TablePrintRaises(df)
       THEN RaiseInLoop("TypeError")
       ELSE pc' = "bulb" /\ exc' = exc
    /\ UNCHANGED <<portfolio, idx, prices, returns, fetchLog, df, bulb, cmds, log,
                   intrAt, quoteIn, quoteOut>>

\* lines 52-64: turn_on, then the colour command; failAt is the command that
\* raises (0: none).  A command that raises leaves the device as it was.
DriveBulb(change_pct, failAt) ==
    LET colour == ColourCommand(change_pct)
    IN  /\ cmds' = IF failAt = 1 THEN Append(cmds, "turn_on")
                   ELSE cmds \o <<"turn_on", colour>>
        /\ bulb' = IF failAt = 1 THEN bulb
                   ELSE IF failAt = 2 THEN [bulb EXCEPT !.on = TRUE]
                   ELSE [on |-> TRUE, colour |-> ColourOf(colour)]
        /\ log' = IF failAt = 0 THEN log ELSE log \cup {"bulb_failed"}

\* lines 47-64
SetBulbColor ==
    /\ pc = "bulb"
    /\ IF summary.overall = None
       THEN UNCHANGED <<bulb, cmds, log>>
       ELSE \E failAt \in 0..2 : DriveBulb(Val(summary.overall), failAt)
    /\ pc' = "sleep"
    /\ UNCHANGED <<portfolio, idx, prices, returns, fetchLog, df, summary, intrAt,
                   exc, quoteIn, quoteOut>>

\* lines 224-225, 219: the sleep ends and the loop goes round
Wake ==
    /\ pc = "sleep"
    /\ pc' = "clear"
    /\ UNCHANGED <<portfolio, idx, prices, returns, fetchLog, df, summary, bulb,
                   cmds, log, intrAt, exc, quoteIn, quoteOut>>

\* Ctrl+C: KeyboardInterrupt is raised in the step in progress.  Inside
\* fetch_yfinance_price the handler of line 126 is the first it meets, inside
\* set_bulb_color the handler of line 63; what they do not catch reaches main.
Interrupt ==
    /\ pc \in InterruptibleSteps
    /\ intrAt' = pc
    /\ IF pc = "fetch" /\ ExceptExceptionCatches("KeyboardInterrupt")
       THEN /\ StoreQuote([failed |-> TRUE, price |-> None, ret |-> None])
            /\ UNCHANGED <<df, summary, bulb, cmds, exc>>
       ELSE IF pc = "bulb" /\ summary.overall # None
               /\ ExceptExceptionCatches("KeyboardInterrupt")
       THEN /\ pc' = "sleep"
            /\ log' = log \cup {"bulb_failed"}
            /\ UNCHANGED <<idx, prices, returns, fetchLog, df, summary, bulb, cmds, exc>>
       ELSE /\ RaiseInLoop("KeyboardInterrupt")
            /\ UNCHANGED <<idx, prices, returns, fetchLog, df, summary, bulb, cmds, log>>
    /\ UNCHANGED <<portfolio, quoteIn, quoteOut>>

\* lines 227-228: the handler prints and calls bulb.turn_off(), outside any try
Shutdown ==
    /\ pc = "interrupted"
    /\ cmds' = Append(cmds, "turn_off")
    /\ log' = log \cup {"exiting"}
    /\ \E ok \in BOOLEAN :
          IF ok
          THEN bulb' = [bulb EXCEPT !.on = FALSE] /\ pc' = "exited" /\ exc' = exc
          ELSE bulb' = bulb /\ pc' = "crashed" /\ exc' = "BulbError"
    /\ UNCHANGED <<portfolio, idx, prices, returns, fetchLog, df, summary, intrAt,
                   quoteIn, quoteOut>>

Next ==
    \/ ClearConsole
    \/ StartCycle
    \/ FetchOne
    \/ Enrich
    \/ PrintSummary
    \/ SetBulbColor
    \/ Wake
    \/ Interrupt
    \/ Shutdown

Spec == Init /\ [][Next]_vars

-----------------------------------------------------------------------------
(* fetch_yfinance_price alone: one call on each answer of the price source *)

InitQuote ==
    /\ pc = "quote"
    /\ quoteIn \in QuoteInputs
    /\ quoteOut = NoQuoteOut
    /\ portfolio = <<>>
    /\ idx = 1
    /\ prices = EmptyMap
    /\ returns = EmptyMap
    /\ fetchLog = <<>>
    /\ df = <<>>
    /\ summary = NoSummary
    /\ bulb = BulbStart
    /\ cmds = <<>>
    /\ log = {}
    /\ intrAt = "none"
    /\ exc = "none"

\* lines 97-128
FetchQuote ==
    /\ pc = "quote"
    /\ quoteOut' = fetch_yfinance_price(quoteIn)
    /\ log' = IF quoteOut'.failed THEN log \cup {"fetch_failed"} ELSE log
    /\ pc' = "quoted"
    /\ UNCHANGED <<portfolio, idx, prices, returns, fetchLog, df, summary, bulb,
                   cmds, intrAt, exc, quoteIn>>

SpecQuote == InitQuote /\ [][FetchQuote]_vars

-----------------------------------------------------------------------------
(* set_bulb_color alone: called cycle after cycle on changes drawn from the    *)
(* neighbourhood of the two thresholds                                         *)

\* numerators over 100, in hundredths of a percent: 3000 / 100 is 0.30 %
ChangeNumerators == {-3100, -3001, -3000, -2999, 0, 2999, 3000, 3001, 3100}
ChangeInputs == {None, Some(NaN)} \cup {Some(<<n, 100>>) : n \in ChangeNumerators}

InitClassify ==
    /\ pc = "bulb"
    /\ summary \in {[NoSummary EXCEPT !.overall = v] : v \in ChangeInputs}
    /\ portfolio = <<>>
    /\ idx = 1
    /\ prices = EmptyMap
    /\ returns = EmptyMap
    /\ fetchLog = <<>>
    /\ df = <<>>
    /\ bulb = BulbStart
    /\ cmds = <<>>
    /\ log = {}
    /\ intrAt = "none"
    /\ exc = "none"
    /\ quoteIn = NoQuoteIn
    /\ quoteOut = NoQuoteOut

\* the next cycle hands set_bulb_color its own change
NextChange ==
    /\ pc = "sleep"
    /\ pc' = "bulb"
    /\ \E v \in ChangeInputs : summary' = [summary EXCEPT !.overall = v]
    /\ cmds' = <<>>
    /\ log' = {}
    /\ UNCHANGED <<portfolio, idx, prices, returns, fetchLog, df, bulb, intrAt, exc,
                   quoteIn, quoteOut>>

NextClassify ==
    \/ SetBulbColor
    \/ NextChange

SpecClassify == InitClassify /\ [][NextClassify]_vars

-----------------------------------------------------------------------------
(* Properties *)

\* The colour command the thresholds 0.3 and -0.3 call for, v = <<num, den>>
ExpectedCommand(v) ==
    IF v[2] # 0 /\ v[1] > 30 * v[2] THEN "set_green"
    ELSE IF v[2] # 0 /\ v[1] < (-30) * v[2] THEN "set_red"
    ELSE "set_white"

\* C1: for every change v handed to set_bulb_color exactly one outcome occurs.
\* v = None: no command is issued and the bulb is as before.  Otherwise turn_on
\* is issued, the one colour command that follows it is green for v > 0.3, red
\* for v < -0.3 and white for every other v (0.3 and -0.3 included), and when no
\* command raised the bulb is on in that colour.
C1_Classification ==
    [][(pc = "bulb" /\ pc' = "sleep") =>
         IF summary.overall = None
         THEN cmds' = cmds /\ cmds' = <<>> /\ bulb' = bulb
         ELSE LET c == ExpectedCommand(Val(summary.overall))
              IN  /\ cmds' \in {<<"turn_on">>, <<"turn_on", c>>}
                  /\ "bulb_failed" \notin log' =>
                        /\ cmds' = <<"turn_on", c>>
                        /\ bulb' = [on |-> TRUE, colour |-> ColourOf(c)]]_vars

\* C1 witness: a change of exactly 0.30 % has set the bulb to white
C1_Witness ==
    /\ pc = "sleep"
    /\ summary.overall = Some(<<3000, 100>>)
    /\ cmds = <<"turn_on", "set_white">>
    /\ bulb = [on |-> TRUE, colour |-> "white"]

\* The rows of df with both a one-day return and a current value
Qualifying == {k \in 1..Len(df) : df[k].one_day_return_pct # None /\ df[k].current_value # None}

RECURSIVE SumOver(_, _)
SumOver(S, f) == IF S = {} THEN 0
                 ELSE LET k == CHOOSE x \in S : TRUE
                      IN  f[k] + SumOver(S \ {k}, f)

\* C2: the overall one-day change print_summary returns is
\* sum(return * current_value) / sum(current_value) over the rows with both
\* defined, and it is None, so that no bulb command is issued in the cycle, when
\* no row qualifies or the qualifying current values sum to zero.
C2_WeightedMean ==
    pc \in {"bulb", "sleep"} =>
        LET W == SumOver(Qualifying, [k \in Qualifying |-> Val(df[k].current_value)])
            N == SumOver(Qualifying,
                         [k \in Qualifying |->
                             Val(df[k].one_day_return_pct) * Val(df[k].current_value)])
        IN  IF Qualifying = {} \/ W = 0
            THEN summary.overall = None /\ (pc = "sleep" => cmds = <<>>)
            ELSE /\ summary.overall # None
                 /\ Val(summary.overall)[2] # 0
                 /\ Val(summary.overall)[1] * W = N * Val(summary.overall)[2]

\* C3: the polling loop is left only because of an interrupt: no exception
\* raised inside a cycle ends the program.
C3_LoopLeftOnlyByInterrupt ==
    pc = "crashed" => intrAt # "none"

\* C4: after an interrupt the power-off command is issued before the program
\* ends, and a failing power-off is logged and the program ends normally.
C4_ShutdownNeverFatal ==
    (intrAt # "none" /\ pc \in {"exited", "crashed"}) =>
        /\ cmds # <<>> /\ cmds[Len(cmds)] = "turn_off"
        /\ pc = "exited"

\* the last position of symbol list syms that holds the symbol at position k
IsLastOccurrence(syms, k) == \A j \in (k + 1)..Len(syms) : syms[j] # syms[k]

\* C5: whatever fetches fail, fetch_live_prices calls fetch_yfinance_price for
\* every entry of the symbol list, in order, and both maps it returns hold an
\* entry for every symbol: None/None where the symbol's fetch failed, the values
\* of the symbol's fetch otherwise; the enriched rows carry these values.
C5_FetchIsolation ==
    pc \in {"fetch", "enrich", "summary", "bulb", "sleep"} =>
        LET syms == SymbolList(portfolio)
        IN  /\ Len(fetchLog) <= Len(syms)
            /\ \A k \in 1..Len(fetchLog) : fetchLog[k].sym = syms[k]
            /\ pc # "fetch" =>
                  /\ Len(fetchLog) = Len(syms)
                  /\ DOMAIN prices = {syms[k] : k \in 1..Len(syms)}
                  /\ DOMAIN returns = {syms[k] : k \in 1..Len(syms)}
                  /\ \A k \in 1..Len(syms) : IsLastOccurrence(syms, k) =>
                        /\ prices[syms[k]] = fetchLog[k].price
                        /\ returns[syms[k]] = fetchLog[k].ret
                        /\ fetchLog[k].failed =>
                              prices[syms[k]] = None /\ returns[syms[k]] = None
            /\ pc \in {"summary", "bulb", "sleep"} =>
                  /\ Len(df) = Len(syms)
                  /\ \A k \in 1..Len(syms) :
                        /\ df[k].current_price = prices[syms[k]]
                        /\ df[k].one_day_return_pct = returns[syms[k]]

\* C5 witness: the first symbol's fetch failed, the second symbol's fetch gave a
\* price and a return, and the second row is enriched with them
C5_Witness ==
    /\ pc = "summary"
    /\ Len(fetchLog) = 2
    /\ fetchLog[1].failed
    /\ fetchLog[1].sym # fetchLog[2].sym
    /\ ~fetchLog[2].failed
    /\ df[1].current_price = None
    /\ df[2].current_price # None
    /\ df[2].one_day_return_pct # None
    /\ df[2].current_value # None

\* C6: total_invested, total_current_value and total_profit_loss are sums over
\* the rows with a defined current_value only.
C6_TotalsOverPricedRows ==
    pc \in {"bulb", "sleep"} =>
        LET Priced == {k \in 1..Len(df) : df[k].current_value # None}
        IN  /\ summary.total_invested = SumOver(Priced, [k \in Priced |-> df[k].invested])
            /\ summary.total_current =
                   SumOver(Priced, [k \in Priced |-> Val(df[k].current_value)])
            /\ summary.total_pnl = SumOver(Priced, [k \in Priced |-> Val(df[k].profit_loss)])

\* C7: with last_price and previous_close as resolved by the fallbacks, the
\* returned one-day return is (last - prev) / prev * 100 rounded to 2 places
\* whenever both are present and prev # 0, and None when prev is absent or 0.
\* (A last_price of 0, which the code treats as absent, is set aside.)
C7_ReturnDefinedForEveryPair ==
    (pc = "quoted" /\ ~quoteOut.failed) =>
        LET l == quoteOut.last
            q == quoteOut.prev
        IN  /\ (l # None /\ Val(l) # 0 /\ q # None /\ Val(q) # 0) =>
                  quoteOut.ret = Some(RoundDiv((Val(l) - Val(q)) * 10000, Val(q)))
            /\ (q = None \/ q = Some(0)) => quoteOut.ret = None

\* C8 (as stated): the loop is left for the interrupt handler from the sleep
\* step only.
C8_InterruptOnlyAtSleep ==
    pc = "interrupted" => intrAt = "sleep"

\* C8 (amended): an interrupt that arrives in any step of the loop ends that
\* step at once: control is in main's interrupt handler or past it, and past it
\* the power-off command is the last command issued.
C8_InterruptHonoredInEveryStep ==
    intrAt # "none" =>
        /\ pc \in {"interrupted", "exited", "crashed"}
        /\ pc # "interrupted" => (cmds # <<>> /\ cmds[Len(cmds)] = "turn_off")

\* C8 witness: an interrupt arrived during the fetch of the second of two
\* symbols; the fetch was abandoned and the program exited with the bulb off
C8_Witness ==
    /\ intrAt = "fetch"
    /\ pc = "exited"
    /\ Len(portfolio) = 2
    /\ Len(fetchLog) = 1
    /\ ~bulb.on

\* C9: in one cycle exactly one quote is fetched per unique normalized symbol,
\* and rows sharing a normalized symbol carry that quote's price and return.
C9_OneFetchPerSymbol ==
    pc \in {"enrich", "summary", "bulb", "sleep"} =>
        LET syms == SymbolList(portfolio)
        IN  /\ \A s \in {syms[k] : k \in 1..Len(syms)} :
                  Cardinality({j \in 1..Len(fetchLog) : fetchLog[j].sym = s}) = 1
            /\ pc # "enrich" =>
                  \A j, k \in 1..Len(df) : df[j].symbol_norm = df[k].symbol_norm =>
                      /\ df[j].current_price = df[k].current_price
                      /\ df[j].one_day_return_pct = df[k].one_day_return_pct

\* C10: the history fallback runs exactly when the primary previous_close is
\* missing or zero or the primary last_price is missing; with two closes they
\* become previous_close and last_price; with one close it becomes last_price
\* and no previous_close is left from the primary or history path, so the return
\* is None unless the detailed quote supplies a previous_close.
\* (A price of 0 counts as missing here, as it does in the code.)
C10_HistoryFallback ==
    (pc = "quoted" /\ ~quoteOut.failed) =>
        /\ quoteOut.ranHist <=>
              (quoteIn.prev \in {None, Some(0)} \/ quoteIn.last \in {None, Some(0)})
        /\ (quoteOut.ranHist /\ Len(quoteIn.hist) = 2) =>
              /\ quoteOut.histPrev = Some(quoteIn.hist[1])
              /\ quoteOut.last = Some(quoteIn.hist[2])
        /\ (quoteOut.ranHist /\ Len(quoteIn.hist) = 1) =>
              /\ quoteOut.last = Some(quoteIn.hist[1])
              /\ quoteOut.histPrev \in {None, Some(0)}
              /\ quoteIn.infoPrev \in {None, Some(0)} => quoteOut.ret = None

====
